---- MODULE Spec2Model ----
(***************************************************************************)
(* A model of src/src/sidebar/util/build-thread.js: buildThread() and the  *)
(* helpers it calls.                                                       *)
(*                                                                         *)
(* Identifiers (annotation ids, $tags, entries of `references`) are        *)
(* non-empty strings in the program; only equality on them is used, so     *)
(* they are modelled as the numbers 1..NumIds.  The i-th input annotation  *)
(* carries the local tag i and, when it has a server id, the id i (the     *)
(* inputs have distinct identities).  Ids above the number of annotations  *)
(* name annotations that are missing from the input.  Strings that are     *)
(* property names of Object.prototype and the empty string are not in the  *)
(* id domain.                                                              *)
(*                                                                         *)
(* The program builds a graph of Thread objects.  In the model a Thread    *)
(* object is the record threads[id]; a `children` array is a sequence of   *)
(* ids, and the root thread is the variable `thread`.                      *)
(***************************************************************************)
EXTENDS Integers, Sequences, FiniteSets, TLC

\* Largest number of annotations in the input list.
MaxAnns == 2
\* Number of distinct id strings; ids above the input's length are missing.
NumIds == 3
\* Largest number of `references` entries in the whole input list.
MaxRefs == 2
\* Number of distinct `created` timestamps.
MaxCreated == 2

\* JavaScript's `undefined` (an absent id, parent, annotation, option).
None == 0

Ids == 1..NumIds

\* The id of the root thread, 'root': a string that is no annotation's id.
RootId == NumIds + 1

VARIABLES
  annotations,  \* the input list: records [id, tag, references, created]
  opts,         \* the merged options of line 317
  threads,      \* the Thread objects, keyed by id
  order,        \* the keys of `threads` in insertion order (for...in order)
  thread,       \* the root thread (`rootThread`, then `let thread`)
  pc,           \* the statement of buildThread that runs next
  i,            \* the index of the running forEach
  filterArgs    \* history: the thread ids threadFilterFn has been called with

vars == <<annotations, opts, threads, order, thread, pc, i, filterArgs>>

----------------------------------------------------------------------------
(* Helpers and pure functions of the source                                *)

DEFAULT_THREAD_STATE ==
  [collapsed |-> FALSE, depth |-> 0, visible |-> TRUE, replyCount |-> 0]

\* A new Thread object: {...DEFAULT_THREAD_STATE, children: [], annotation, id}
\* `annotation` is the index of the annotation in the input, None if absent.
NewThread(id, annotation) ==
  [id |-> id, annotation |-> annotation, parent |-> None, children |-> <<>>,
   collapsed |-> DEFAULT_THREAD_STATE.collapsed,
   depth |-> DEFAULT_THREAD_STATE.depth,
   visible |-> DEFAULT_THREAD_STATE.visible,
   replyCount |-> DEFAULT_THREAD_STATE.replyCount,
   totalChildren |-> None]

annotationId(annotation) ==
  IF annotation.id # None THEN annotation.id ELSE annotation.tag

\* The recursion of hasPathToRoot, with the number of stack frames in use.
\* A walk that has not ended after as many frames as there are threads has
\* revisited a thread and recurses until the call stack is exhausted, which
\* the engine reports as a RangeError.
RECURSIVE pathToRoot(_, _, _, _)
pathToRoot(ts, id, ancestorId, frames) ==
  IF frames > Cardinality(DOMAIN ts) THEN "RangeError"
  ELSE IF ancestorId \notin DOMAIN ts \/ ts[ancestorId].parent = id THEN "false"
  ELSE IF ts[ancestorId].parent = None THEN "true"
  ELSE pathToRoot(ts, id, ts[ancestorId].parent, frames + 1)

\* A hasPathToRoot that only checks that the ancestor's thread exists.
hasPathToRootUnguarded(ts, id, ancestorId) ==
  IF ancestorId \in DOMAIN ts THEN "true" ELSE "false"

hasPathToRoot(ts, id, ancestorId) == pathToRoot(ts, id, ancestorId, 1)

\* A setParent that links the parent to its own parents on every call, whether
\* or not the parent's thread existed, and does not return early for a thread
\* that has a parent.
RECURSIVE setParentAgain(_, _, _)
setParentAgain(st, id, parents) ==
  IF Len(parents) = 0 THEN st
  ELSE
    LET parentId == parents[Len(parents)]
        s0 == IF parentId \notin DOMAIN st.threads
              THEN [st EXCEPT !.threads = @ @@ (parentId :> NewThread(parentId, None)),
                              !.order = Append(@, parentId)]
              ELSE st
        s1 == setParentAgain(s0, parentId, SubSeq(parents, 1, Len(parents) - 1))
    IN  IF s1.threw THEN s1
        ELSE LET path == hasPathToRoot(s1.threads, id, parentId)
             IN  IF path = "RangeError" THEN [s1 EXCEPT !.threw = TRUE]
                 ELSE IF path = "true"
                 THEN [s1 EXCEPT !.threads[id].parent = parentId,
                                 !.threads[parentId].children = Append(@, id)]
                 ELSE s1

\* setParent works on st = [threads, order, threw]; threw records a RangeError
\* raised by hasPathToRoot, which ends the build.
RECURSIVE setParent(_, _, _)
setParent(st, id, parents) ==
  IF st.threads[id].parent # None \/ Len(parents) = 0 THEN st
  ELSE
    LET parentId == parents[Len(parents)]
        s1 == IF parentId \notin DOMAIN st.threads
              THEN setParent(
                     [st EXCEPT !.threads = @ @@ (parentId :> NewThread(parentId, None)),
                                !.order = Append(@, parentId)],
                     parentId, SubSeq(parents, 1, Len(parents) - 1))
              ELSE st
    IN  IF s1.threw THEN s1
        ELSE LET path == hasPathToRoot(s1.threads, id, parentId)
             IN  IF path = "RangeError" THEN [s1 EXCEPT !.threw = TRUE]
                 ELSE IF path = "true"
                 THEN [s1 EXCEPT !.threads[id].parent = parentId,
                                 !.threads[parentId].children = Append(@, id)]
                 ELSE s1

\* (annotation.references || []).filter(id => id !== annotation.id)
filterSelf(annotation) ==
  SelectSeq(annotation.references, LAMBDA id : id # annotation.id)


\* The elements of a sequence.
Range(seq) == {seq[j] : j \in 1..Len(seq)}

\* The ids of the threads that mapThread, sortThread and countRepliesAndDepth
\* visit below a thread whose children array is `kids`.
RECURSIVE descendants(_, _)
descendants(ts, kids) ==
  IF Len(kids) = 0 THEN {}
  ELSE {kids[1]} \cup descendants(ts, ts[kids[1]].children)
                 \cup descendants(ts, Tail(kids))

\* The less-than functions a caller passes as sortCompareFn and
\* replySortCompareFn; "tag" and "created" are the defaults of defaultOpts.
compare(name, a, b) ==
  IF name = "tag" THEN a.tag < b.tag
  ELSE IF name = "created" THEN a.created < b.created
  ELSE b.created < a.created

\* The comparator sort() hands to Array.prototype.sort: negative, zero or
\* positive for the threads with ids x and y.
sortOrder(anns, ts, name, x, y) ==
  LET a == ts[x].annotation
      b == ts[y].annotation
  IN  IF a = None \/ b = None
      THEN IF a = None /\ b = None THEN 0
           ELSE IF a = None THEN -1 ELSE 1
      ELSE IF compare(name, anns[a], anns[b]) THEN -1
      ELSE IF compare(name, anns[b], anns[a]) THEN 1
      ELSE 0

\* Array.prototype.sort is stable; with a consistent comparator its result is
\* the one stable ordering, computed here by insertion from the left.
RECURSIVE insert(_, _, _, _, _)
insert(anns, ts, name, sorted, x) ==
  IF Len(sorted) = 0 THEN <<x>>
  ELSE IF sortOrder(anns, ts, name, sorted[Len(sorted)], x) > 0
  THEN Append(insert(anns, ts, name, SubSeq(sorted, 1, Len(sorted) - 1), x),
              sorted[Len(sorted)])
  ELSE Append(sorted, x)

RECURSIVE sort(_, _, _, _)
sort(anns, ts, kids, name) ==
  IF Len(kids) = 0 THEN <<>>
  ELSE insert(anns, ts, name,
              sort(anns, ts, SubSeq(kids, 1, Len(kids) - 1), name),
              kids[Len(kids)])

\* A sortThread that sorts the replies with the top-level comparator.
sortThreadOneComparator(anns, ts, t, compareFn, replyCompareFn) ==
  LET visited == descendants(ts, t.children)
  IN  [root    |-> [t EXCEPT !.children = sort(anns, ts, t.children, compareFn)],
       threads |-> [k \in DOMAIN ts |->
                      IF k \in visited
                      THEN [ts[k] EXCEPT !.children =
                              sort(anns, ts, ts[k].children, compareFn)]
                      ELSE ts[k]]]

\* sortThread(thread, compareFn, replyCompareFn) on the root thread t.
sortThread(anns, ts, t, compareFn, replyCompareFn) ==
  LET visited == descendants(ts, t.children)
  IN  [root    |-> [t EXCEPT !.children = sort(anns, ts, t.children, compareFn)],
       threads |-> [k \in DOMAIN ts |->
                      IF k \in visited
                      THEN [ts[k] EXCEPT !.children =
                              sort(anns, ts, ts[k].children, replyCompareFn)]
                      ELSE ts[k]]]

\* A reduce that counts the direct children only.
reduceRepliesDirect(ts, kids) == Len(kids)

\* children.reduce((total, child) => total + 1 + child.replyCount, 0)
RECURSIVE reduceReplies(_, _)
reduceReplies(ts, kids) ==
  IF Len(kids) = 0 THEN 0
  ELSE reduceReplies(ts, SubSeq(kids, 1, Len(kids) - 1))
       + 1 + ts[kids[Len(kids)]].replyCount

\* thread.children.map(c => countRepliesAndDepth(c, depth)) for the children
\* array `kids`: every thread below is recounted before its parent.
RECURSIVE countChildren(_, _, _)
countChildren(ts, kids, depth) ==
  IF Len(kids) = 0 THEN ts
  ELSE LET k  == kids[1]
           t1 == countChildren(ts, ts[k].children, depth + 1)
           t2 == [t1 EXCEPT ![k].depth = depth,
                            ![k].replyCount = reduceReplies(t1, t1[k].children)]
       IN  countChildren(t2, Tail(kids), depth)

\* countRepliesAndDepth(thread, depth) on the root thread t.
countRepliesAndDepth(ts, t, depth) ==
  LET counted == countChildren(ts, t.children, depth + 1)
  IN  [root    |-> [t EXCEPT !.depth = depth,
                             !.replyCount = reduceReplies(counted, t.children)],
       threads |-> counted]

RECURSIVE hasVisibleChildren(_, _)
hasVisibleChildren(ts, t) ==
  \E j \in 1..Len(t.children) :
     ts[t.children[j]].visible \/ hasVisibleChildren(ts, ts[t.children[j]])


----------------------------------------------------------------------------
(* buildThread, statement by statement                                     *)

hasSelection == opts.selected # {}
hasForcedVisible == opts.forcedVisible # {}

\* annotations.forEach(annotation => { threads[id] = {...} })
CreateThread ==
  /\ pc = "create"
  /\ LET id == annotationId(annotations[i])
     IN  /\ threads' = [k \in DOMAIN threads \cup {id} |->
                          IF k = id THEN NewThread(id, i) ELSE threads[k]]
         /\ order' = IF id \in DOMAIN threads THEN order ELSE Append(order, id)
  /\ IF i < Len(annotations)
     THEN i' = i + 1 /\ pc' = pc
     ELSE i' = 1 /\ pc' = "link"
  /\ UNCHANGED <<annotations, opts, thread, filterArgs>>

\* annotations.forEach(annotation => setParent(threads, id, parents))
LinkThread ==
  /\ pc = "link"
  /\ LET st == setParent([threads |-> threads, order |-> order, threw |-> FALSE],
                         annotationId(annotations[i]),
                         filterSelf(annotations[i]))
     IN  /\ threads' = st.threads
         /\ order' = st.order
         /\ IF st.threw THEN i' = i /\ pc' = "threw"
            ELSE IF i < Len(annotations) THEN i' = i + 1 /\ pc' = pc
            ELSE i' = 1 /\ pc' = "collect"
  /\ UNCHANGED <<annotations, opts, thread, filterArgs>>

\* The for...in loop of threadAnnotations and its return value.
CollectRoots ==
  /\ pc = "collect"
  /\ threads' = [k \in DOMAIN threads |->
                   IF threads[k].parent = None
                   THEN [threads[k] EXCEPT !.collapsed = TRUE]
                   ELSE threads[k]]
  /\ thread' = [NewThread(RootId, None) EXCEPT
                  !.children = SelectSeq(order, LAMBDA k : threads[k].parent = None)]
  /\ pc' = "select"
  /\ UNCHANGED <<annotations, opts, order, i, filterArgs>>

\* A selection filter that keeps every annotated thread once some tag is
\* forced visible.
isKeptBySelectionAnyTag(child) ==
  child.id \in opts.selected \/ (hasForcedVisible /\ child.annotation # None)

isKeptBySelection(child) ==
  LET isSelected == child.id \in opts.selected
      isForcedVisible ==
        /\ hasForcedVisible
        /\ child.annotation # None
        /\ annotations[child.annotation].tag \in opts.forcedVisible
  IN  isSelected \/ isForcedVisible

\* if (hasSelection) { thread.children = thread.children.filter(...) }
FilterSelected ==
  /\ pc = "select"
  /\ thread' = IF hasSelection
               THEN [thread EXCEPT !.children =
                       SelectSeq(@, LAMBDA k : isKeptBySelection(threads[k]))]
               ELSE thread
  /\ pc' = "threadFilter"
  /\ UNCHANGED <<annotations, opts, threads, order, i, filterArgs>>

\* if (opts.threadFilterFn) { thread.children = thread.children.filter(fn) }
FilterThreads ==
  /\ pc = "threadFilter"
  /\ IF opts.threadFilterFn.given
     THEN /\ thread' = [thread EXCEPT !.children =
                          SelectSeq(@, LAMBDA k : k \in opts.threadFilterFn.accepts)]
          /\ filterArgs' = Range(thread.children)
     ELSE UNCHANGED <<thread, filterArgs>>
  /\ pc' = "visible"
  /\ UNCHANGED <<annotations, opts, threads, order, i>>

\* The mapFn of the first mapThread call.
setVisible(t) ==
  LET threadIsVisible ==
        IF t.annotation = None THEN FALSE
        ELSE IF opts.filterFn.given
        THEN IF hasForcedVisible
                /\ annotations[t.annotation].tag \in opts.forcedVisible
             THEN TRUE
             ELSE t.annotation \in opts.filterFn.accepts
        ELSE t.visible
  IN  [t EXCEPT !.visible = threadIsVisible]

\* A collapse rule that expands threads with visible replies whether or not
\* an annotation filter is active.
setCollapsedUnfiltered(t) ==
  IF t.id \in DOMAIN opts.expanded
  THEN [t EXCEPT !.collapsed = ~opts.expanded[t.id]]
  ELSE [t EXCEPT !.collapsed = t.collapsed /\ ~hasVisibleChildren(threads, t)]

\* The mapFn of the second mapThread call.
setCollapsed(t) ==
  IF t.id \in DOMAIN opts.expanded
  THEN [t EXCEPT !.collapsed = ~opts.expanded[t.id]]
  ELSE LET hasUnfilteredChildren ==
             opts.filterFn.given /\ hasVisibleChildren(threads, t)
       IN  [t EXCEPT !.collapsed = t.collapsed /\ ~hasUnfilteredChildren]

\* mapThread(thread, mapFn) on the root thread t: a copy of the tree in which
\* every thread is mapFn(thread) with its children mapped in turn.  mapFn is
\* "visible" for the first callback of buildThread, "collapsed" for the second.
\* The result is the new root and the new Thread objects.
mapThread(ts, t, mapFn) ==
  LET visited == descendants(ts, t.children)
      apply(x) == IF mapFn = "visible" THEN setVisible(x) ELSE setCollapsed(x)
  IN  [root    |-> [apply(t) EXCEPT !.children = t.children],
       threads |-> [k \in DOMAIN ts |->
                      IF k \in visited
                      THEN [apply(ts[k]) EXCEPT !.children = ts[k].children]
                      ELSE ts[k]]]

SetVisibility ==
  /\ pc = "visible"
  /\ LET m == mapThread(threads, thread, "visible")
     IN  thread' = m.root /\ threads' = m.threads
  /\ pc' = "prune"
  /\ UNCHANGED <<annotations, opts, order, i, filterArgs>>

\* thread.children = thread.children.filter(
\*   child => child.visible || hasVisibleChildren(child))
PruneInvisible ==
  /\ pc = "prune"
  /\ thread' = [thread EXCEPT !.children =
                  SelectSeq(@, LAMBDA k : threads[k].visible
                                          \/ hasVisibleChildren(threads, threads[k]))]
  /\ pc' = "collapse"
  /\ UNCHANGED <<annotations, opts, threads, order, i, filterArgs>>

ResolveCollapsed ==
  /\ pc = "collapse"
  /\ LET m == mapThread(threads, thread, "collapsed")
     IN  thread' = m.root /\ threads' = m.threads
  /\ pc' = "sort"
  /\ UNCHANGED <<annotations, opts, order, i, filterArgs>>

SortThreads ==
  /\ pc = "sort"
  /\ LET m == sortThread(annotations, threads, thread,
                         opts.sortCompareFn, opts.replySortCompareFn)
     IN  thread' = m.root /\ threads' = m.threads
  /\ pc' = "count"
  /\ UNCHANGED <<annotations, opts, order, i, filterArgs>>

\* countRepliesAndDepth(thread, -1), totalChildren and the return.
CountReplies ==
  /\ pc = "count"
  /\ LET m == countRepliesAndDepth(threads, thread, -1)
     IN  /\ thread' = [m.root EXCEPT !.totalChildren = Len(m.root.children)]
         /\ threads' = m.threads
  /\ pc' = "done"
  /\ UNCHANGED <<annotations, opts, order, i, filterArgs>>

----------------------------------------------------------------------------
(* Inputs and initial states                                               *)

RECURSIVE totalLen(_, _)
totalLen(lens, n) == IF n = 0 THEN 0 ELSE lens[n] + totalLen(lens, n - 1)

\* The lengths of the `references` of n annotations: at most MaxRefs entries
\* altogether.
Lengths(n) == {lens \in [1..n -> 0..MaxRefs] : totalLen(lens, n) <= MaxRefs}

\* An annotation list with distinct identities.  The annotations in `unsaved`
\* have no server id and are identified by their $tag.  The `references` are
\* the sequence `flat` cut into lists of the lengths `lens`: any sequences of
\* ids, present or missing, repeated or not.
AnnotationList(n, unsaved, lens, flat, created) ==
  [k \in 1..n |->
     [id |-> IF k \in unsaved THEN None ELSE k,
      tag |-> k,
      references |-> SubSeq(flat, totalLen(lens, k - 1) + 1, totalLen(lens, k)),
      created |-> created[k]]]

\* The options filterFn and threadFilterFn are functions of the caller.  A
\* supplied predicate is the set it accepts: annotations (by position in the
\* input) for filterFn, thread ids for threadFilterFn.  NoFn is an option
\* that is not supplied.
NoFn == [given |-> FALSE, accepts |-> {}]

defaultOpts ==
  [selected |-> {}, expanded |-> [k \in {} |-> TRUE], forcedVisible |-> {},
   filterFn |-> NoFn, threadFilterFn |-> NoFn,
   sortCompareFn |-> "tag", replySortCompareFn |-> "created"]

\* The state at the call buildThread(anns, options).
Called(anns, options) ==
  /\ annotations = anns
  /\ opts = options
  /\ threads = [k \in {} |-> NewThread(k, None)]
  /\ order = <<>>
  /\ thread = NewThread(RootId, None)
  /\ pc = IF Len(anns) = 0 THEN "collect" ELSE "create"
  /\ i = 1
  /\ filterArgs = {}

\* buildThread is called with any annotation list and the given options.
\* `unsavedSets` are the sets of annotations that may lack a server id.
CalledWithAny(unsavedSets, createdValues, options) ==
  \E n \in 0..MaxAnns :
    \E unsaved \in unsavedSets \cap SUBSET (1..n), lens \in Lengths(n) :
      \E flat \in [1..totalLen(lens, n) -> Ids], created \in [1..n -> createdValues] :
        Called(AnnotationList(n, unsaved, lens, flat, created), options)

\* The $tags of the input annotations.
Tags == 1..MaxAnns

\* Any of the annotations may be unsaved.
AnyUnsaved == SUBSET Tags

\* The sets with at most one element of S.
AtMostOne(S) == {{}} \cup {{x} : x \in S}

\* At most one annotation of the list is unsaved.
OneUnsaved == AtMostOne(Tags)

\* A predicate passed as filterFn or threadFilterFn, by the set it accepts.
Fn(accepts) == [given |-> TRUE, accepts |-> accepts]

\* Any annotation list, saved or unsaved, with the default options.
Init == CalledWithAny(AnyUnsaved, {1}, defaultOpts)

\* Selection, forced visibility and a thread filter: `selected` and
\* `forcedVisible` hold at most one entry, threadFilterFn accepts the thread
\* of the first annotation alone or every thread but that one.
InitSelect ==
  \E selected \in AtMostOne(Ids), forcedVisible \in AtMostOne(Tags),
     threadFilterFn \in {NoFn, Fn({1}), Fn(Ids \ {1})} :
       CalledWithAny(OneUnsaved, {1},
         [defaultOpts EXCEPT !.selected = selected,
                             !.forcedVisible = forcedVisible,
                             !.threadFilterFn = threadFilterFn])

\* Selection, an annotation filter and a thread filter together.
InitCount ==
  \E selected \in AtMostOne(Ids),
     filterFn \in {NoFn} \cup {Fn(S) : S \in AtMostOne(Tags)},
     threadFilterFn \in {NoFn, Fn(Ids \ {1})} :
       CalledWithAny(OneUnsaved, {1},
         [defaultOpts EXCEPT !.selected = selected,
                             !.filterFn = filterFn,
                             !.threadFilterFn = threadFilterFn])

\* Any annotation filter and any forced-visible tags, for any number of
\* unsaved annotations.
InitForced ==
  \E filterFn \in {NoFn} \cup {Fn(S) : S \in SUBSET Tags},
     forcedVisible \in SUBSET Tags :
       CalledWithAny(AnyUnsaved, {1},
         [defaultOpts EXCEPT !.filterFn = filterFn,
                             !.forcedVisible = forcedVisible])

\* Any annotation filter and an `expanded` map with at most one entry.
InitCollapse ==
  \E filterFn \in {NoFn} \cup {Fn(S) : S \in SUBSET Tags},
     expanded \in {[k \in K |-> v] : K \in AtMostOne(Ids), v \in BOOLEAN} :
       CalledWithAny(OneUnsaved, {1},
         [defaultOpts EXCEPT !.filterFn = filterFn, !.expanded = expanded])

\* Any `created` timestamps; the default comparators or a pair of comparators
\* that sort top-level threads and replies in opposite directions.
InitSort ==
  \E cmp \in {<<"tag", "created">>, <<"created", "newest">>, <<"newest", "created">>} :
       CalledWithAny(OneUnsaved, 1..MaxCreated,
         [defaultOpts EXCEPT !.sortCompareFn = cmp[1],
                             !.replySortCompareFn = cmp[2]])

\* A first and a later annotation, each with up to MaxRefs references, with
\* the default options: the lists in which two annotations disagree about the
\* ancestors of a thread.
InitPair ==
  \E unsaved \in OneUnsaved \cap SUBSET (1..2), lens \in [1..2 -> 0..MaxRefs] :
    \E flat \in [1..totalLen(lens, 2) -> Ids] :
      Called(AnnotationList(2, unsaved, lens, flat, [k \in 1..2 |-> 1]), defaultOpts)

Next ==
  \/ CreateThread
  \/ LinkThread
  \/ CollectRoots
  \/ FilterSelected
  \/ FilterThreads
  \/ SetVisibility
  \/ PruneInvisible
  \/ ResolveCollapsed
  \/ SortThreads
  \/ CountReplies


Spec == Init /\ [][Next]_vars
SpecSelect == InitSelect /\ [][Next]_vars
SpecCount == InitCount /\ [][Next]_vars
SpecForced == InitForced /\ [][Next]_vars
SpecCollapse == InitCollapse /\ [][Next]_vars
SpecSort == InitSort /\ [][Next]_vars
SpecPair == InitPair /\ [][Next]_vars


----------------------------------------------------------------------------
(* Properties of tree assembly: hasPathToRoot, setParent, threadAnnotations *)

\* threadAnnotations has returned.
Assembled == pc \notin {"create", "link", "threw"}

\* The identities of the input annotations.
InputIds == {annotationId(annotations[k]) : k \in 1..Len(annotations)}

\* The threads met by following `parent` from thread k, in at most `steps`
\* steps.
RECURSIVE parentChain(_, _, _)
parentChain(ts, k, steps) ==
  IF steps = 0 \/ k \notin DOMAIN ts \/ ts[k].parent = None THEN {}
  ELSE {ts[k].parent} \cup parentChain(ts, ts[k].parent, steps - 1)

StrictAncestors(ts, k) == parentChain(ts, k, Cardinality(DOMAIN ts))

\* Following `parent` from k ends at a thread without parent.
RECURSIVE reachesTop(_, _, _)
reachesTop(ts, k, steps) ==
  IF k \notin DOMAIN ts THEN FALSE
  ELSE IF ts[k].parent = None THEN TRUE
  ELSE IF steps = 0 THEN FALSE
  ELSE reachesTop(ts, ts[k].parent, steps - 1)

Occurrences(seq, x) == Cardinality({j \in 1..Len(seq) : seq[j] = x})

IsForest(ts) ==
  \A k \in DOMAIN ts :
     /\ reachesTop(ts, k, Cardinality(DOMAIN ts))
     /\ k \notin StrictAncestors(ts, k)
     /\ ts[k].parent # None => Occurrences(ts[ts[k].parent].children, k) = 1

\* C1: after tree assembly over any annotation list with distinct identities
\* and arbitrary references, the parent relation is a forest: following
\* `parent` from any thread reaches a parentless thread, no thread is its own
\* parent or ancestor, and a thread is in its parent's children exactly once.
C1_AssembledForest == Assembled => IsForest(threads)

\* C2: buildThread returns a tree without throwing and without unbounded
\* recursion for every annotation list, however malformed its references
\* (dangling, circular, repeated ids): hasPathToRoot always terminates.
C2_ReturnsTree == pc = "done" \/ ENABLED Next

\* The ids of the threads of the tree below the root.
TreeIds == descendants(threads, thread.children)

\* C3: with default options every input annotation is the annotation of
\* exactly one thread reachable from the returned root, and every thread that
\* was left without a parent is a direct child of the root.
C3_NoAnnotationLost ==
  pc = "done" =>
    /\ \A k \in 1..Len(annotations) :
          Cardinality({t \in TreeIds : threads[t].annotation = k}) = 1
    /\ \A t \in DOMAIN threads :
          (threads[t].annotation # None /\ threads[t].parent = None)
             => Occurrences(thread.children, t) = 1

\* The input is two annotations that name each other as parent.
MutualReferences ==
  /\ Len(annotations) = 2
  /\ annotations[1].references = <<annotationId(annotations[2])>>
  /\ annotations[2].references = <<annotationId(annotations[1])>>

\* C4 as claimed: for two annotations that reference each other, in the
\* returned tree neither is a strict descendant of the other, and the build
\* completes without infinite recursion.
C4_NeitherDescendant ==
  MutualReferences =>
    /\ pc # "threw"
    /\ pc = "done" => /\ 1 \notin StrictAncestors(threads, 2)
                      /\ 2 \notin StrictAncestors(threads, 1)

\* C4 amended: for two annotations that reference each other the build
\* completes without infinite recursion, and in the returned tree the
\* annotation that is first in the input is the only child of the second,
\* which is a top-level thread: the second is not a descendant of the first.
C4_FirstAttachedOnly ==
  MutualReferences =>
    /\ pc # "threw"
    /\ pc = "done" => /\ threads[1].parent = 2
                      /\ threads[2].parent = None
                      /\ threads[2].children = <<1>>
                      /\ threads[1].children = <<>>
                      /\ thread.children = <<2>>

C4_Witness == MutualReferences /\ pc = "done" /\ thread.children = <<2>>

\* The nearest ancestor named by annotation k after the self-reference filter,
\* None if there is none.
NearestAncestor(k) ==
  LET parents == filterSelf(annotations[k])
  IN  IF Len(parents) = 0 THEN None ELSE parents[Len(parents)]

\* C6: when the nearest ancestor id P named by a reply's references is absent
\* from the input, the returned tree contains exactly one thread with id P,
\* which has no annotation and is not visible, and the reply is among its
\* children; replies naming the same missing P share that one placeholder.
C6_MissingParentPlaceholder ==
  pc \in {"done", "threw"} =>
    \A k \in 1..Len(annotations) :
       LET P == NearestAncestor(k)
       IN  (P # None /\ P \notin InputIds) =>
             /\ pc = "done"
             /\ P \in TreeIds
             /\ Cardinality({t \in TreeIds : threads[t].id = P}) = 1
             /\ threads[P].annotation = None
             /\ ~threads[P].visible
             /\ Occurrences(threads[P].children, annotationId(annotations[k])) = 1


----------------------------------------------------------------------------
(* Properties of the returned tree: counts, filters, visibility, collapse,  *)
(* order                                                                    *)

\* The threads strictly below thread t of the tree.
Below(t) == descendants(threads, threads[t].children)

\* C5: in the returned tree the replyCount of every thread, the root
\* included, is the number of its strict descendants in that tree, whatever
\* the selection and the filters removed from the top level.
C5_ReplyCountIsDescendants ==
  pc = "done" =>
    /\ thread.replyCount = Cardinality(TreeIds)
    /\ \A t \in TreeIds : threads[t].replyCount = Cardinality(Below(t))

C5_Witness ==
  /\ pc = "done"
  /\ Cardinality(TreeIds) < Cardinality(DOMAIN threads)
  /\ thread.replyCount >= 2
  /\ \E t \in TreeIds : threads[t].replyCount >= 1

\* The thread with id t passes the selection filter.
Selected(t) ==
  \/ t \in opts.selected
  \/ /\ threads[t].annotation # None
     /\ annotations[threads[t].annotation].tag \in opts.forcedVisible

\* C7: with a non-empty `selected`, every direct child of the returned root
\* is selected or has a forced-visible $tag; threadFilterFn is only called
\* with threads that passed the selection filter; and both filters remove
\* top-level threads only: every thread below a kept thread stays in the tree.
C7_SelectionFirstTopLevelOnly ==
  /\ hasSelection => \A t \in filterArgs : Selected(t)
  /\ pc = "done" =>
       /\ hasSelection => \A t \in Range(thread.children) : Selected(t)
       /\ \A k \in DOMAIN threads :
             StrictAncestors(threads, k) \cap Range(thread.children) # {}
                => k \in TreeIds

C7_Witness ==
  /\ pc = "done"
  /\ hasSelection
  /\ opts.threadFilterFn.given
  /\ Cardinality(TreeIds) < Cardinality(DOMAIN threads)
  /\ \E t \in Range(thread.children) :
        \E k \in Range(threads[t].children) :
           ~Selected(k) /\ k \notin opts.threadFilterFn.accepts

\* C8: with a filterFn and no selection or threadFilterFn, every input
\* annotation whose $tag is forced visible has a visible thread in the
\* returned tree, at any depth, and every other annotated thread of the tree
\* has visible equal to filterFn(annotation).
C8_ForcedVisibleShown ==
  (pc = "done" /\ opts.filterFn.given) =>
    /\ \A k \in 1..Len(annotations) :
          annotations[k].tag \in opts.forcedVisible =>
             \E t \in TreeIds : threads[t].annotation = k /\ threads[t].visible
    /\ \A t \in TreeIds :
          (/\ threads[t].annotation # None
           /\ annotations[threads[t].annotation].tag \notin opts.forcedVisible)
             => threads[t].visible = (threads[t].annotation \in opts.filterFn.accepts)

\* Thread t of the tree has a visible thread below it.
HasVisibleDescendant(t) == \E d \in Below(t) : threads[d].visible

\* C9: for every thread of the returned tree, an own entry in `expanded`
\* decides `collapsed` (its negation); without an entry the thread is
\* collapsed exactly when it is top-level and it is not the case that a
\* filterFn is supplied and the thread has a visible descendant.  The root,
\* which has no entry, is not collapsed.
C9_CollapseResolution ==
  pc = "done" =>
    /\ ~thread.collapsed
    /\ \A t \in TreeIds :
          IF t \in DOMAIN opts.expanded
          THEN threads[t].collapsed = ~opts.expanded[t]
          ELSE threads[t].collapsed =
                 (/\ threads[t].parent = None
                  /\ ~(opts.filterFn.given /\ HasVisibleDescendant(t)))

C9_Witness ==
  /\ pc = "done"
  /\ opts.filterFn.given
  /\ \E t \in TreeIds : /\ t \notin DOMAIN opts.expanded
                        /\ threads[t].parent = None
                        /\ HasVisibleDescendant(t)
                        /\ ~threads[t].collapsed
  /\ \E t \in TreeIds : /\ t \in DOMAIN opts.expanded
                        /\ threads[t].collapsed

\* `after` is a permutation of `before` (children arrays hold distinct ids).
IsPermutation(after, before) ==
  Len(after) = Len(before) /\ Range(after) = Range(before)

\* The order of a sorted children array: placeholders first, and no annotated
\* thread before another that the comparator puts strictly first.
InSortOrder(ts, kids, name) ==
  \A x, y \in 1..Len(kids) :
     x < y =>
       LET a == ts[kids[x]].annotation
           b == ts[kids[y]].annotation
       IN  /\ ~(a # None /\ b = None)
           /\ (a # None /\ b # None) =>
                ~(/\ compare(name, annotations[b], annotations[a])
                  /\ ~compare(name, annotations[a], annotations[b]))

\* C10: sorting turns every children array into a permutation of itself with
\* the placeholders first and the annotated threads in the order of the
\* comparator, sortCompareFn for the children of the root and
\* replySortCompareFn for all other children; the returned tree keeps it.
C10_SortContract ==
  [][/\ pc = "sort" =>
          /\ IsPermutation(thread'.children, thread.children)
          /\ InSortOrder(threads', thread'.children, opts.sortCompareFn)
          /\ \A t \in TreeIds :
                /\ IsPermutation(threads'[t].children, threads[t].children)
                /\ InSortOrder(threads', threads'[t].children,
                               opts.replySortCompareFn)
     /\ pc = "count" =>
          /\ thread'.children = thread.children
          /\ \A t \in TreeIds : threads'[t].children = threads[t].children
    ]_vars

C10_Witness ==
  /\ pc = "done"
  /\ opts.sortCompareFn # opts.replySortCompareFn
  /\ \E t \in TreeIds :
        /\ Len(threads[t].children) = 2
        /\ threads[t].children[1] > threads[t].children[2]
        /\ threads[threads[t].children[2]].annotation # None

\* C11: once the annotations are linked, no entry of an annotation's
\* `references` equal to its own identity (its `id`, or its `$tag` when it has
\* no `id`) has been passed to setParent, and no annotation's thread is its
\* own parent or a child of itself.
C11_SelfReferenceDropped ==
  pc \notin {"create", "link"} =>
    \A k \in 1..Len(annotations) :
       LET id == annotationId(annotations[k])
       IN  /\ id \notin Range(filterSelf(annotations[k]))
           /\ threads[id].parent # id
           /\ id \notin Range(threads[id].children)

\* C12: in every step of a build, a thread that has a parent keeps that parent,
\* stays listed once in that parent's `children` and appears in no other
\* `children` list, the root's included; and a placeholder keeps the parent
\* (or the lack of one) it got from the annotation that created it, whatever
\* ancestors later annotations name for it.
C12_FirstAssignmentWins ==
  [][\A k \in DOMAIN threads :
        /\ k \in DOMAIN threads'
        /\ threads[k].annotation = None => threads'[k].parent = threads[k].parent
        /\ threads[k].parent # None =>
              /\ threads'[k].parent = threads[k].parent
              /\ k \notin Range(thread'.children)
              /\ \A p \in DOMAIN threads' :
                    Occurrences(threads'[p].children, k) =
                      IF p = threads[k].parent THEN 1 ELSE 0
    ]_vars

\* The first annotation created placeholder P below G; the later annotation
\* names another parent for P, and P is still below G in the returned tree.
C12_Witness ==
  /\ pc = "done"
  /\ Len(annotations) = 2
  /\ \E G, H, P \in Ids :
        /\ G # H
        /\ annotations[1].references = <<G, P>>
        /\ filterSelf(annotations[2]) = <<H, P>>
        /\ threads[P].annotation = None
        /\ threads[P].parent = G
        /\ Occurrences(threads[G].children, P) = 1
        /\ P \notin Range(threads[H].children)

====
